---------------------------- MODULE Spec2Model ----------------------------
(***************************************************************************)
(* SlurmTop (src/slurmtop.cpp): the status-blob parser (extractField,      *)
(* extractGPUInfo, parseJobDetails) and the snapshot aggregator            *)
(* (SlurmData, fetchSlurmData).                                            *)
(*                                                                         *)
(* A std::string is a sequence of one-character strings.  Positions are    *)
(* 0-based as in the source, so the character at position p of s is        *)
(* s[p + 1]; std::string::npos is the sentinel npos.                       *)
(*                                                                         *)
(* SpecParse applies the parser to every blob of BlobParams; SpecRefresh   *)
(* runs main's first fetch and the fetches of the 'r' key over the         *)
(* answers of the scheduler's commands.                                    *)
(*                                                                         *)
(* The second half models the screen: the column layout engine             *)
(* (getMaxColumnWidth, calculateColumnWidths), the table drawing           *)
(* (drawJobTable, drawPendingView, draw) and the key handler               *)
(* (handleInput, run).  SpecLayout lays out and draws one snapshot for     *)
(* every focus and terminal width of its bounds; SpecLoop runs the loop    *)
(* of run: a pass of handleInput per key, and the draw that follows it.    *)
(***************************************************************************)
EXTENDS Integers, Sequences, FiniteSets, TLC

(***************************************************************************)
(* String literals of the source and of the scheduler's output.            *)
(***************************************************************************)
sJobName == <<"J","o","b","N","a","m","e">>
sAccount == <<"A","c","c","o","u","n","t">>
sJobState == <<"J","o","b","S","t","a","t","e">>
sReason == <<"R","e","a","s","o","n">>
sRunTime == <<"R","u","n","T","i","m","e">>
sTimeLimit == <<"T","i","m","e","L","i","m","i","t">>
sPriority == <<"P","r","i","o","r","i","t","y">>
sAllocTRES == <<"A","l","l","o","c","T","R","E","S">>
sReqTRES == <<"R","e","q","T","R","E","S">>
sRUNNING == <<"R","U","N","N","I","N","G">>
sPENDING == <<"P","E","N","D","I","N","G">>
sCOMPLETED == <<"C","O","M","P","L","E","T","E","D">>
sGresTyped == <<"g","r","e","s","/","g","p","u",":">>
sGresUntyped == <<"g","r","e","s","/","g","p","u","=">>
sNA == <<"N","/","A">>
sGeneric == <<"g","e","n","e","r","i","c">>
sA100 == <<"a","1","0","0">>
sV100 == <<"v","1","0","0">>
sCpu4 == <<"c","p","u","=","4">>
sEq == <<"=">>
sEmpty == <<>>

npos == -1

INT_MAX == 2147483647

INT_MIN == (-2147483647) - 1

Digits == {"0","1","2","3","4","5","6","7","8","9"}

DigitVal(c) ==
    CASE c = "0" -> 0 [] c = "1" -> 1 [] c = "2" -> 2 [] c = "3" -> 3
      [] c = "4" -> 4 [] c = "5" -> 5 [] c = "6" -> 6 [] c = "7" -> 7
      [] c = "8" -> 8 [] c = "9" -> 9

MinOf(S) == CHOOSE x \in S : \A y \in S : x <= y

(***************************************************************************)
(* std::string operations used by the source.                              *)
(***************************************************************************)
\* s.find(pat, start): first position >= start where pat occurs, else npos
find(s, pat, start) ==
    LET cands == { p \in start .. (Len(s) - Len(pat)) :
                      \A k \in 1 .. Len(pat) : s[p + k] = pat[k] }
    IN  IF cands = {} THEN npos ELSE MinOf(cands)

\* s.find_first_of(chars, start)
find_first_of(s, chars, start) ==
    LET cands == { p \in start .. (Len(s) - 1) : s[p + 1] \in chars }
    IN  IF cands = {} THEN npos ELSE MinOf(cands)

\* s.substr(pos, n), for 0 <= pos <= s.length()
substr(s, pos, n) ==
    SubSeq(s, pos + 1, IF pos + n > Len(s) THEN Len(s) ELSE pos + n)

\* the characters with code 32..126, within the alphabet of the blobs
IsPrintable(c) == c \notin {"\n", "\t", "\r"}

RECURSIVE stripControlChars(_)
stripControlChars(str) ==
    IF str = <<>> THEN <<>>
    ELSE LET c == Head(str)
             rest == stripControlChars(Tail(str))
         IN  IF IsPrintable(c) THEN <<c>> \o rest
             ELSE IF c = "\t" THEN <<" ">> \o rest
             ELSE rest

extractField(output, fieldName) ==
    LET pos0 == find(output, fieldName \o sEq, 0)
    IN  IF pos0 = npos THEN sEmpty
        ELSE LET pos == pos0 + Len(fieldName) + 1
                 e1  == find(output, <<" ">>, pos)
                 e2  == IF e1 = npos THEN find(output, <<"\n">>, pos) ELSE e1
                 end == IF e2 = npos THEN Len(output) ELSE e2
             IN  stripControlChars(substr(output, pos, end - pos))

(***************************************************************************)
(* std::stoi / std::stol: skip leading white space, take an optional sign  *)
(* and the longest run of decimal digits; no digit at all, or a value out  *)
(* of range, throws.  The result is [ok |-> FALSE] for a throw.            *)
(***************************************************************************)
IsSpace(c) == c \in {" ", "\t", "\n", "\r"}

RECURSIVE SkipSpace(_, _)
SkipSpace(s, p) ==
    IF p < Len(s) /\ IsSpace(s[p + 1]) THEN SkipSpace(s, p + 1) ELSE p

RECURSIVE Accumulate(_, _, _, _)
Accumulate(s, p, neg, acc) ==
    IF p >= Len(s) \/ s[p + 1] \notin Digits THEN [ok |-> TRUE, val |-> acc]
    ELSE LET d == DigitVal(s[p + 1])
         IN  IF neg
             THEN IF acc < (INT_MIN + d + 9) \div 10
                  THEN [ok |-> FALSE, val |-> 0]
                  ELSE Accumulate(s, p + 1, neg, acc * 10 - d)
             ELSE IF acc > (INT_MAX - d) \div 10
                  THEN [ok |-> FALSE, val |-> 0]
                  ELSE Accumulate(s, p + 1, neg, acc * 10 + d)

strtol(s) ==
    LET p0  == SkipSpace(s, 0)
        sgn == p0 < Len(s) /\ s[p0 + 1] \in {"+", "-"}
        neg == sgn /\ s[p0 + 1] = "-"
        p1  == IF sgn THEN p0 + 1 ELSE p0
    IN  IF p1 >= Len(s) \/ s[p1 + 1] \notin Digits
        THEN [ok |-> FALSE, val |-> 0]
        ELSE Accumulate(s, p1, neg, 0)

\* try { x = std::stoi(str); } catch (...) { x = 0; }
stoiOrZero(str) == LET r == strtol(str) IN IF r.ok THEN r.val ELSE 0

\* try { x = std::stol(str); } catch (...) { x = 0; }  Texts beyond 32 bits
\* are outside the priorities of the model.
stolOrZero(str) == LET r == strtol(str) IN IF r.ok THEN r.val ELSE 0

(***************************************************************************)
(* extractGPUInfo: the pair (gpuCount, gpuType) it leaves in its two       *)
(* reference parameters.                                                   *)
(***************************************************************************)
GpuDefault == [gpuCount |-> 0, gpuType |-> sNA]

gpuCountEnd(output, countStart) ==
    LET e == find_first_of(output, {" ", ",", "\n"}, countStart)
    IN  IF e = npos THEN Len(output) ELSE e

extractUntyped(output, searchStart) ==
    LET untypedGresPos == find(output, sGresUntyped, searchStart)
    IN  IF untypedGresPos = npos THEN GpuDefault
        ELSE LET countStart == untypedGresPos + 9
                 countEnd   == gpuCountEnd(output, countStart)
                 countStr   == substr(output, countStart, countEnd - countStart)
             IN  [gpuCount |-> stoiOrZero(countStr), gpuType |-> sGeneric]

\* extractGPUInfo looking for the untyped pattern before the typed one
extractGPUInfoUntypedFirst(output, fieldName) ==
    LET fieldPos == find(output, fieldName \o sEq, 0)
    IN  IF fieldPos = npos THEN GpuDefault
        ELSE IF find(output, sGresUntyped, fieldPos) # npos
        THEN extractUntyped(output, fieldPos)
        ELSE LET typedGresPos == find(output, sGresTyped, fieldPos)
                 typeStart    == typedGresPos + 9
                 typeEnd      == find(output, sEq, typeStart)
                 countStart   == typeEnd + 1
                 countEnd     == gpuCountEnd(output, countStart)
             IN  IF typedGresPos # npos /\ typeEnd # npos
                 THEN [gpuCount |-> stoiOrZero(
                           substr(output, countStart, countEnd - countStart)),
                       gpuType  |-> stripControlChars(
                           substr(output, typeStart, typeEnd - typeStart))]
                 ELSE GpuDefault

extractGPUInfo(output, fieldName) ==
    LET fieldPos == find(output, fieldName \o sEq, 0)
    IN  IF fieldPos = npos THEN GpuDefault
        ELSE LET searchStart  == fieldPos
                 typedGresPos == find(output, sGresTyped, searchStart)
                 typeStart    == typedGresPos + 9
                 typeEnd      == find(output, sEq, typeStart)
             IN  IF typedGresPos # npos /\ typeEnd # npos
                 THEN LET countStart == typeEnd + 1
                          countEnd   == gpuCountEnd(output, countStart)
                          countStr   == substr(output, countStart,
                                               countEnd - countStart)
                      IN  [gpuCount |-> stoiOrZero(countStr),
                           gpuType  |-> stripControlChars(
                               substr(output, typeStart, typeEnd - typeStart))]
                 ELSE extractUntyped(output, searchStart)

(***************************************************************************)
(* parseJobDetails                                                         *)
(***************************************************************************)
\* parseGpu falling back to AllocTRES only when AllocTRES holds GPUs
parseGpuKeepReq(state, scontrolOutput) ==
    LET req   == extractGPUInfo(scontrolOutput, sReqTRES)
        alloc == extractGPUInfo(scontrolOutput, sAllocTRES)
    IN  IF state = sRUNNING THEN alloc
        ELSE IF req.gpuCount = 0 /\ alloc.gpuCount # 0 THEN alloc ELSE req

parseGpu(state, scontrolOutput) ==
    IF state = sRUNNING
    THEN extractGPUInfo(scontrolOutput, sAllocTRES)
    ELSE LET req == extractGPUInfo(scontrolOutput, sReqTRES)
         IN  IF req.gpuCount = 0
             THEN extractGPUInfo(scontrolOutput, sAllocTRES)
             ELSE req

parseJobDetails(jobId, scontrolOutput) ==
    LET state == extractField(scontrolOutput, sJobState)
        gpu   == parseGpu(state, scontrolOutput)
    IN  [jobId     |-> jobId,
         jobName   |-> extractField(scontrolOutput, sJobName),
         account   |-> extractField(scontrolOutput, sAccount),
         state     |-> state,
         reason    |-> extractField(scontrolOutput, sReason),
         runtime   |-> extractField(scontrolOutput, sRunTime),
         timeLimit |-> extractField(scontrolOutput, sTimeLimit),
         priority  |-> stolOrZero(extractField(scontrolOutput, sPriority)),
         gpuCount  |-> gpu.gpuCount,
         gpuType   |-> gpu.gpuType]

(***************************************************************************)
(* The status blobs the scheduler's "scontrol show job" may answer with.   *)
(* A blob is a list of NAME=value fields; the values below are the         *)
(* resource lists, job states and priorities the parser distinguishes.     *)
(***************************************************************************)
MaxCount == 2

MaxPriority == 2

\* decimal text of a natural number
RECURSIVE Dec(_)
Dec(n) ==
    LET d == <<"0","1","2","3","4","5","6","7","8","9">>[(n % 10) + 1]
    IN  IF n < 10 THEN <<d>> ELSE Dec(n \div 10) \o <<d>>

sBigCount == <<"9","9","9","9","9","9","9","9","9","9">>

\* count texts: plain decimals, empty, non-numeric, signed, out of int range
CountTexts ==
    { Dec(n) : n \in 0 .. MaxCount }
      \cup { <<>>, <<"x">>, <<"-","3">>, sBigCount }

TresOptions ==
    { [kind |-> k, type |-> sNA, ct |-> <<>>] : k \in {"absent", "nogpu"} }
      \cup { [kind |-> "typed", type |-> sA100, ct |-> c] : c \in CountTexts }
      \cup { [kind |-> "untyped", type |-> sGeneric, ct |-> c] : c \in CountTexts }
      \cup { [kind |-> k, type |-> sV100, ct |-> Dec(2)] :
                k \in {"typedThenUntyped", "untypedThenTyped", "typedNoEq"} }

\* the text of a resource list
TresValue(o) ==
    CASE o.kind = "nogpu"   -> sCpu4
      [] o.kind = "typed"   -> sCpu4 \o <<",">> \o sGresTyped \o o.type \o sEq \o o.ct
      [] o.kind = "untyped" -> sCpu4 \o <<",">> \o sGresUntyped \o o.ct
      [] o.kind = "typedThenUntyped" ->
            sCpu4 \o <<",">> \o sGresTyped \o o.type \o sEq \o o.ct
                  \o <<",">> \o sGresUntyped \o Dec(9)
      [] o.kind = "untypedThenTyped" ->
            sGresUntyped \o Dec(9) \o <<",">> \o sGresTyped \o o.type \o sEq \o o.ct
      [] o.kind = "typedNoEq" -> sCpu4 \o <<",">> \o sGresTyped \o o.type
      [] OTHER -> <<>>

StateTexts == {sRUNNING, sPENDING, sCOMPLETED}

PriorityOptions ==
    { [present |-> TRUE, text |-> Dec(n)] : n \in 0 .. MaxPriority }
      \cup { [present |-> TRUE, text |-> <<"x">>], [present |-> FALSE, text |-> <<>>] }

\* the order of the fields in a blob and the separator between them
Layouts ==
    { [order |-> <<"state", "prio", "req", "alloc">>, sep |-> " "],
      [order |-> <<"state", "prio", "alloc", "req">>, sep |-> " "],
      [order |-> <<"alloc", "req", "prio", "state">>, sep |-> " "],
      [order |-> <<"prio", "state", "alloc", "req">>, sep |-> "\n"] }

FieldText(f, p) ==
    CASE f = "state" -> sJobState \o sEq \o p.state
      [] f = "prio"  -> IF p.prio.present THEN sPriority \o sEq \o p.prio.text ELSE <<>>
      [] f = "req"   -> IF p.req.kind = "absent" THEN <<>>
                        ELSE sReqTRES \o sEq \o TresValue(p.req)
      [] f = "alloc" -> IF p.alloc.kind = "absent" THEN <<>>
                        ELSE sAllocTRES \o sEq \o TresValue(p.alloc)

RECURSIVE JoinFields(_, _, _)
JoinFields(order, p, i) ==
    IF i > Len(order) THEN <<>>
    ELSE LET t    == FieldText(order[i], p)
             rest == JoinFields(order, p, i + 1)
         IN  IF t = <<>> THEN rest
             ELSE IF rest = <<>> THEN t
             ELSE t \o <<p.layout.sep>> \o rest

BuildBlob(p) == JoinFields(p.layout.order, p, 1)

BlobParams ==
    [layout : Layouts, state : StateTexts, prio : PriorityOptions,
     req : TresOptions, alloc : TresOptions]

(***************************************************************************)
(* The collaborators' answers to one refresh.  "squeue -u USER" answers    *)
(* with the owned job identifiers and "squeue -t PD" with the pending      *)
(* ones, each identifier once; "scontrol show job ID" answers every        *)
(* identifier with a status blob, or with nothing when the job is gone.    *)
(* The two passes are answered independently: the scheduler may change     *)
(* between any two commands.                                               *)
(***************************************************************************)
NumJobIds == 2

JobIds == { Dec(100 + i) : i \in 1 .. NumJobIds }

sUser == <<"u","s","e","r">>

TresAbsent == [kind |-> "absent", type |-> sNA, ct |-> <<>>]

TresNoGpu == [kind |-> "nogpu", type |-> sNA, ct |-> <<>>]

TresTyped(n) == [kind |-> "typed", type |-> sA100, ct |-> Dec(n)]

StatusParams(st, pr, rq, al) ==
    [layout |-> [order |-> <<"state", "prio", "req", "alloc">>, sep |-> " "],
     state |-> st, prio |-> [present |-> TRUE, text |-> Dec(pr)],
     req |-> rq, alloc |-> al]

\* status blobs of owned jobs: running with and without GPUs, pending, done
OwnedStatusParams ==
    { StatusParams(sRUNNING, 1, TresTyped(1), TresTyped(1)),
      StatusParams(sRUNNING, 2, TresNoGpu, TresNoGpu),
      StatusParams(sPENDING, 1, TresTyped(2), TresAbsent),
      StatusParams(sCOMPLETED, 1, TresTyped(1), TresTyped(1)) }

\* status blobs of the jobs the pending enumeration lists: pending with
\* different priorities, or running by the time the status is fetched
PendingStatusParams ==
    { StatusParams(sPENDING, 1, TresTyped(2), TresAbsent),
      StatusParams(sPENDING, MaxPriority, TresNoGpu, TresAbsent),
      StatusParams(sPENDING, 0, TresTyped(1), TresAbsent),
      StatusParams(sRUNNING, 1, TresTyped(1), TresTyped(1)) }

OwnedBlobs == { BuildBlob(p) : p \in OwnedStatusParams } \cup { <<>> }

PendingBlobs == { BuildBlob(p) : p \in PendingStatusParams } \cup { <<>> }

\* the sequences that list each identifier of S once
RECURSIVE Orderings(_)
Orderings(S) ==
    IF S = {} THEN { <<>> }
    ELSE UNION { { <<x>> \o t : t \in Orderings(S \ {x}) } : x \in S }

IdLists == UNION { Orderings(S) : S \in SUBSET JobIds }

\* those in ascending order of the identifier (all of them have three digits)
Ascending(ids) ==
    \A i \in 1 .. Len(ids) - 1 : stolOrZero(ids[i]) < stolOrZero(ids[i + 1])

\* an enumeration and the answer to the status fetch of each identifier
Answers(lists, blobs) ==
    UNION { { [i \in 1 .. Len(ids) |-> [id |-> ids[i], blob |-> bs[i]]] :
                 bs \in [1 .. Len(ids) -> blobs] } : ids \in lists }

\* Identifiers are names the program only copies and compares, so the owned
\* enumeration is taken in ascending order and the pending one in any order.
Responses ==
    [owned   : Answers({ ids \in IdLists : Ascending(ids) }, OwnedBlobs),
     pending : Answers(IdLists, PendingBlobs)]

NoResponse == [owned |-> <<>>, pending |-> <<>>]

OneAnswer(st, pr, rq, al) ==
    << [id |-> Dec(101), blob |-> BuildBlob(StatusParams(st, pr, rq, al))] >>

\* the answers to a refresh asked for with the 'r' key: the queue is empty,
\* or holds one pending job
KeyResponses ==
    { NoResponse,
      [owned   |-> OneAnswer(sPENDING, 1, TresTyped(2), TresAbsent),
       pending |-> OneAnswer(sPENDING, 1, TresTyped(2), TresAbsent)] }

(***************************************************************************)
(* SlurmData and fetchSlurmData.  A std::map is a function on the keys it  *)
(* holds.                                                                  *)
(***************************************************************************)
EmptyMap == [t \in {} |-> 0]

\* m[k] += v, operator[] inserting a zero for a missing key
mapAdd(m, k, v) ==
    IF k \in DOMAIN m
    THEN [m EXCEPT ![k] = @ + v]
    ELSE [t \in DOMAIN m \cup {k} |-> IF t = k THEN v ELSE m[t]]

\* the values an int that was never written may hold
UninitInts == {0, 7}

\* "SlurmData data; data.username = argv[1];"
ConstructedData(g) ==
    [username |-> sUser, jobs |-> <<>>, allPendingJobs |-> <<>>,
     totalJobs |-> g, runningJobs |-> g, pendingJobs |-> g,
     gpuTypeCount |-> EmptyMap, gpuTypeRequested |-> EmptyMap]

\* clear() without "totalJobs = runningJobs = pendingJobs = 0"
clearKeepCounts(d) ==
    [d EXCEPT !.jobs = <<>>, !.allPendingJobs = <<>>,
              !.gpuTypeCount = EmptyMap, !.gpuTypeRequested = EmptyMap]

\* clear() without "gpuTypeRequested.clear()"
clearKeepRequested(d) ==
    [d EXCEPT !.jobs = <<>>, !.allPendingJobs = <<>>,
              !.gpuTypeCount = EmptyMap,
              !.totalJobs = 0, !.runningJobs = 0, !.pendingJobs = 0]

clear(d) ==
    [d EXCEPT !.jobs = <<>>, !.allPendingJobs = <<>>,
              !.gpuTypeCount = EmptyMap, !.gpuTypeRequested = EmptyMap,
              !.totalJobs = 0, !.runningJobs = 0, !.pendingJobs = 0]

\* addOwnedJob taking every job that is not running for a pending one
addOwnedJobElsePending(d, job) ==
    LET d1 == [d EXCEPT !.jobs = Append(@, job)]
    IN  IF job.state = sRUNNING
        THEN [d1 EXCEPT !.runningJobs = @ + 1,
                        !.gpuTypeCount =
                            IF job.gpuCount > 0
                            THEN mapAdd(@, job.gpuType, job.gpuCount) ELSE @]
        ELSE [d1 EXCEPT !.pendingJobs = @ + 1,
                        !.gpuTypeRequested =
                            IF job.gpuCount > 0
                            THEN mapAdd(@, job.gpuType, job.gpuCount) ELSE @]

\* the body of "if (!output.empty())" in the loop over the owned jobs
addOwnedJob(d, job) ==
    LET d1 == [d EXCEPT !.jobs = Append(@, job)]
    IN  IF job.state = sRUNNING
        THEN [d1 EXCEPT !.runningJobs = @ + 1,
                        !.gpuTypeCount =
                            IF job.gpuCount > 0
                            THEN mapAdd(@, job.gpuType, job.gpuCount) ELSE @]
        ELSE IF job.state = sPENDING
        THEN [d1 EXCEPT !.pendingJobs = @ + 1,
                        !.gpuTypeRequested =
                            IF job.gpuCount > 0
                            THEN mapAdd(@, job.gpuType, job.gpuCount) ELSE @]
        ELSE d1

\* parseJobDetails on the status blobs of the responses, tabulated once: the
\* record depends on the identifier through its jobId field only
StatusTable ==
    [b \in (OwnedBlobs \cup PendingBlobs) \ {<<>>} |-> parseJobDetails(<<>>, b)]

parseStatus(jobId, output) == [StatusTable[output] EXCEPT !.jobId = jobId]

\* the loop over the owned jobs without "if (!output.empty())"
RECURSIVE fetchOwnedNoSkip(_, _, _)
fetchOwnedNoSkip(d, owned, i) ==
    IF i > Len(owned) THEN d
    ELSE fetchOwnedNoSkip(
             addOwnedJob(d, parseJobDetails(owned[i].id, owned[i].blob)),
             owned, i + 1)

\* "for (const auto& jid : jobIds)", from the i-th identifier on
RECURSIVE fetchOwned(_, _, _)
fetchOwned(d, owned, i) ==
    IF i > Len(owned) THEN d
    ELSE LET jid    == owned[i].id
             output == owned[i].blob
         IN  fetchOwned(IF output # <<>>
                        THEN addOwnedJob(d, parseStatus(jid, output))
                        ELSE d,
                        owned, i + 1)

keepPendingAboveOne(job) == job.priority > 1

keepPending(job) == job.priority > 0

\* the body of "if (!output.empty())" in the loop over the pending jobs
addPendingJob(d, job) ==
    IF keepPending(job) THEN [d EXCEPT !.allPendingJobs = Append(@, job)] ELSE d

\* "while (pendingIss >> jobId)", from the i-th identifier on
RECURSIVE fetchPending(_, _, _)
fetchPending(d, pending, i) ==
    IF i > Len(pending) THEN d
    ELSE LET jobId  == pending[i].id
             output == pending[i].blob
         IN  fetchPending(IF output # <<>>
                          THEN addPendingJob(d, parseStatus(jobId, output))
                          ELSE d,
                          pending, i + 1)

\* the comparator of an ascending sort
priorityAscending(a, b) == a.priority < b.priority

\* the comparator of the sort: a goes before b
priorityBefore(a, b) == a.priority > b.priority

\* std::sort leaves the order of equal-priority records to the library:
\* ties is "keep" for a library that keeps their order, "swap" for one that
\* reverses it.  A record is inserted into an already sorted prefix.
RECURSIVE insertSorted(_, _, _)
insertSorted(sorted, job, ties) ==
    IF sorted = <<>> THEN <<job>>
    ELSE LET h == Head(sorted)
         IN  IF priorityBefore(job, h)
                \/ (ties = "swap" /\ ~priorityBefore(h, job))
             THEN <<job>> \o sorted
             ELSE <<h>> \o insertSorted(Tail(sorted), job, ties)

RECURSIVE sortSeq(_, _, _)
sortSeq(list, n, ties) ==
    IF n = 0 THEN <<>>
    ELSE insertSorted(sortSeq(list, n - 1, ties), list[n], ties)

sortAllPending(d, ties) ==
    [d EXCEPT !.allPendingJobs = sortSeq(@, Len(@), ties)]

setTotalJobs(d) == [d EXCEPT !.totalJobs = Len(d.jobs)]

fetchSlurmData(d, r, ties) ==
    LET d0 == clear(d)
        d1 == fetchOwned(d0, r.owned, 1)
        d2 == setTotalJobs(d1)
        d3 == fetchPending(d2, r.pending, 1)
    IN  sortAllPending(d3, ties)

(***************************************************************************)
(* The column layout of the table views (SlurmTopUI::getMaxColumnWidth,    *)
(* SlurmTopUI::calculateColumnWidths).  Columns are numbered from 0 as in  *)
(* the source; a width vector is a function on 0 .. numColumns - 1.        *)
(***************************************************************************)
pendingHeaders ==
    << <<"J","o","b","I","D">>, sJobName, sAccount, sReason, sTimeLimit,
       <<"G","P","U","s">>, <<"G","P","U"," ","T","y","p","e">>, sPriority,
       <<"H","i","g","h","e","r">> >>

runningHeaders ==
    << <<"J","o","b","I","D">>, sJobName, sAccount,
       <<"R","u","n","t","i","m","e">>, sTimeLimit, <<"G","P","U","s">>,
       <<"G","P","U"," ","T","y","p","e">>, <<"S","t","a","t","u","s">> >>

\* std::min, std::max
min(a, b) == IF a < b THEN a ELSE b

max(a, b) == IF a > b THEN a ELSE b

\* the quotient of int / int, which truncates toward zero; b > 0
cdiv(a, b) == IF a >= 0 THEN a \div b ELSE -((-a) \div b)

\* std::to_string of an int or a long
to_string(n) == IF n < 0 THEN <<"-">> \o Dec(-n) ELSE Dec(n)

\* the count of the "Higher" column: entries of allPendingJobs whose priority
\* exceeds the job's
higherCount(job, allPendingJobs) ==
    Cardinality({ k \in 1 .. Len(allPendingJobs) :
                     allPendingJobs[k].priority > job.priority })

\* the switch of getMaxColumnWidth: the length of a job's value in a column
columnLen(columnIndex, job, isPendingView, allPendingJobs) ==
    CASE columnIndex = 0 -> Len(job.jobId)
      [] columnIndex = 1 -> Len(job.jobName)
      [] columnIndex = 2 -> Len(job.account)
      [] columnIndex = 3 -> IF isPendingView THEN Len(job.reason)
                            ELSE Len(job.runtime)
      [] columnIndex = 4 -> Len(job.timeLimit)
      [] columnIndex = 5 -> Len(to_string(job.gpuCount))
      [] columnIndex = 6 -> Len(job.gpuType)
      [] columnIndex = 7 -> IF isPendingView THEN Len(to_string(job.priority))
                            ELSE Len(job.state)
      [] columnIndex = 8 -> Len(to_string(higherCount(job, allPendingJobs)))

RECURSIVE maxLenFrom(_, _, _, _, _, _)
maxLenFrom(maxWidth, columnIndex, jobs, k, isPendingView, allPendingJobs) ==
    IF k > Len(jobs) THEN maxWidth
    ELSE maxLenFrom(max(maxWidth,
                        columnLen(columnIndex, jobs[k], isPendingView,
                                  allPendingJobs)),
                    columnIndex, jobs, k + 1, isPendingView, allPendingJobs)

getMaxColumnWidth(columnIndex, jobs, isPendingView, allPendingJobs) ==
    LET header == IF isPendingView THEN pendingHeaders[columnIndex + 1]
                  ELSE runningHeaders[columnIndex + 1]
        maxWidth == maxLenFrom(Len(header), columnIndex, jobs, 1,
                               isPendingView, allPendingJobs)
    IN  min(maxWidth + 1, 50)

RECURSIVE sumWidths(_, _, _, _)
\* the sum of w[i] for from <= i < numColumns, i # skip
sumWidths(w, from, numColumns, skip) ==
    IF from >= numColumns THEN 0
    ELSE (IF from = skip THEN 0 ELSE w[from])
            + sumWidths(w, from + 1, numColumns, skip)

\* the focused width without the cap at the available width
focusedWidthUncapped(focusedNeededWidth, availableWidth) ==
    focusedNeededWidth

\* "int focusedWidth = std::min(focusedNeededWidth, availableWidth);"
focusedWidthOf(focusedNeededWidth, availableWidth) ==
    min(focusedNeededWidth, availableWidth)

\* first pass over the leftover: a column below its required width grows
RECURSIVE growCapped(_, _, _, _, _, _)
growCapped(w, i, numColumns, leftover, focus, req) ==
    IF ~(i < numColumns /\ leftover > 0) THEN [w |-> w, leftover |-> leftover]
    ELSE IF i = focus THEN growCapped(w, i + 1, numColumns, leftover, focus, req)
    ELSE LET canGrow == req[i] - w[i]
             toAdd   == min(canGrow, leftover)
         IN  IF canGrow > 0
             THEN growCapped([w EXCEPT ![i] = @ + toAdd], i + 1, numColumns,
                             leftover - toAdd, focus, req)
             ELSE growCapped(w, i + 1, numColumns, leftover, focus, req)

\* second pass over the leftover: one unit per column, in index order
RECURSIVE spreadLeftover(_, _, _, _, _)
spreadLeftover(w, i, numColumns, leftover, focus) ==
    IF ~(i < numColumns /\ leftover > 0) THEN [w |-> w, leftover |-> leftover]
    ELSE IF i = focus THEN spreadLeftover(w, i + 1, numColumns, leftover, focus)
    ELSE spreadLeftover([w EXCEPT ![i] = @ + 1], i + 1, numColumns,
                        leftover - 1, focus)

\* FOCUSED MODE of calculateColumnWidths
focusedWidths(focus, terminalCols, numColumns, req) ==
    LET availableWidth  == terminalCols - (numColumns - 1) - 2
        focusedWidth    == focusedWidthOf(req[focus] + 2, availableWidth)
        remainingWidth  == availableWidth - focusedWidth
        numOtherColumns == numColumns - 1
        widthPerOtherColumn == cdiv(remainingWidth, numOtherColumns)
        w0 == [i \in 0 .. numColumns - 1 |->
                  IF i = focus THEN focusedWidth
                  ELSE min(req[i], widthPerOtherColumn)]
        usedByOthers == sumWidths(w0, 0, numColumns, focus)
        leftover == remainingWidth - usedByOthers
    IN  IF leftover > 0
        THEN LET g == growCapped(w0, 0, numColumns, leftover, focus, req)
             IN  spreadLeftover(g.w, 0, numColumns, g.leftover, focus).w
        ELSE w0

\* the proportional pass without "extraSpace -= maxGrowth"
RECURSIVE growProportionalNoDebit(_, _, _, _, _, _)
growProportionalNoDebit(w, i, numColumns, extraSpace, req, totalRequired) ==
    IF ~(i < numColumns /\ extraSpace > 0)
    THEN [w |-> w, extraSpace |-> extraSpace]
    ELSE LET proportionalExtra == cdiv(req[i] * extraSpace, totalRequired)
             maxGrowth == min(proportionalExtra, 20)
         IN  growProportionalNoDebit([w EXCEPT ![i] = @ + maxGrowth], i + 1,
                                     numColumns, extraSpace, req, totalRequired)

\* "Then distribute extra space proportionally based on required widths"
RECURSIVE growProportional(_, _, _, _, _, _)
growProportional(w, i, numColumns, extraSpace, req, totalRequired) ==
    IF ~(i < numColumns /\ extraSpace > 0)
    THEN [w |-> w, extraSpace |-> extraSpace]
    ELSE LET proportionalExtra == cdiv(req[i] * extraSpace, totalRequired)
             maxGrowth == min(proportionalExtra, 20)
         IN  growProportional([w EXCEPT ![i] = @ + maxGrowth], i + 1,
                              numColumns, extraSpace - maxGrowth, req,
                              totalRequired)

\* "Distribute any remaining space evenly"
RECURSIVE spreadExtra(_, _, _, _)
spreadExtra(w, i, numColumns, extraSpace) ==
    IF ~(i < numColumns /\ extraSpace > 0)
    THEN [w |-> w, extraSpace |-> extraSpace]
    ELSE spreadExtra([w EXCEPT ![i] = @ + 1], i + 1, numColumns, extraSpace - 1)

\* DEFAULT MODE of calculateColumnWidths
defaultWidths(terminalCols, numColumns, req) ==
    LET availableWidth == terminalCols - (numColumns - 1) - 2
        totalRequired  == sumWidths(req, 0, numColumns, -1)
    IN  IF totalRequired <= availableWidth
        THEN LET extraSpace == availableWidth - totalRequired
                 p == growProportional(req, 0, numColumns, extraSpace, req,
                                       totalRequired)
             IN  spreadExtra(p.w, 0, numColumns, p.extraSpace).w
        ELSE [i \in 0 .. numColumns - 1 |->
                 max(cdiv(req[i] * availableWidth, totalRequired),
                     IF i = 4 \/ i = 5 THEN 5 ELSE 8)]

\* the required widths of the columns, as both modes compute them
requiredWidths(numColumns, jobs, isPendingView, allPendingJobs) ==
    [i \in 0 .. numColumns - 1 |->
        getMaxColumnWidth(i, jobs, isPendingView, allPendingJobs)]

\* calculateColumnWidths; focus is this->focusedColumn, allPendingJobs is
\* this->data.allPendingJobs
calculateColumnWidths(focus, terminalCols, numColumns, jobs, isPendingView, allPendingJobs) ==
    LET req == requiredWidths(numColumns, jobs, isPendingView, allPendingJobs)
    IN  IF focus >= 0 /\ focus < numColumns
        THEN focusedWidths(focus, terminalCols, numColumns, req)
        ELSE defaultWidths(terminalCols, numColumns, req)

(***************************************************************************)
(* The rows of the table views (drawJobTable, drawPendingView, draw).      *)
(***************************************************************************)
\* (size_t)w: a negative int becomes a value above every length
AsSizeT(n) == IF n < 0 THEN INT_MAX ELSE n

\* "s.length() > (size_t)w ? s.substr(0, w) : s"
cutPlain(s, w) ==
    IF Len(s) > AsSizeT(w) THEN substr(s, 0, AsSizeT(w)) ELSE s

\* "s.length() > (size_t)w ? s.substr(0, w - 3) + "..." : s"
cutEllipsis(s, w) ==
    IF Len(s) > AsSizeT(w) THEN substr(s, 0, AsSizeT(w - 3)) \o <<".",".",".">>
    ELSE s

\* one directive "%-W.Ws" of fmt: at most W characters of s, padded to W
formatCell(s, w) ==
    LET t == substr(s, 0, w) IN t \o [k \in 1 .. w - Len(t) |-> " "]

RECURSIVE joinCells(_, _, _, _)
\* the directives of fmt, a space between two of them
joinCells(cells, w, i, numColumns) ==
    IF i >= numColumns THEN <<>>
    ELSE formatCell(cells[i + 1], w[i])
            \o (IF i + 1 < numColumns THEN <<" ">> ELSE <<>>)
            \o joinCells(cells, w, i + 1, numColumns)

\* "char fullLine[512]; snprintf(fullLine, sizeof(fullLine), fmt, ...)"
snprintfLine(cells, w, numColumns) ==
    substr(joinCells(cells, w, 0, numColumns), 0, 511)

\* "Prepare data fields" of drawJobTable and the arguments of its snprintf
jobTableCells(job, focus, w) ==
    <<IF focus = 0 THEN job.jobId ELSE cutPlain(job.jobId, w[0]),
      IF focus = 1 THEN job.jobName ELSE cutEllipsis(job.jobName, w[1]),
      IF focus = 2 THEN job.account ELSE cutEllipsis(job.account, w[2]),
      IF focus = 3 THEN job.runtime ELSE cutPlain(job.runtime, w[3]),
      IF focus = 4 THEN job.timeLimit ELSE cutPlain(job.timeLimit, w[4]),
      to_string(job.gpuCount),
      IF job.gpuCount > 0
      THEN (IF focus = 6 THEN job.gpuType ELSE cutEllipsis(job.gpuType, w[6]))
      ELSE sNA,
      IF focus = 7 THEN job.state ELSE cutPlain(job.state, w[7])>>

\* "Prepare data fields" of drawPendingView and the arguments of its snprintf
pendingViewCells(job, focus, w, allPendingJobs) ==
    <<IF focus = 0 THEN job.jobId ELSE cutPlain(job.jobId, w[0]),
      IF focus = 1 THEN job.jobName ELSE cutEllipsis(job.jobName, w[1]),
      IF focus = 2 THEN job.account ELSE cutEllipsis(job.account, w[2]),
      IF focus = 3 THEN job.reason ELSE cutEllipsis(job.reason, w[3]),
      IF focus = 4 THEN job.timeLimit ELSE cutPlain(job.timeLimit, w[4]),
      to_string(job.gpuCount),
      IF job.gpuCount > 0
      THEN (IF focus = 6 THEN job.gpuType ELSE cutEllipsis(job.gpuType, w[6]))
      ELSE sNA,
      to_string(job.priority),
      to_string(higherCount(job, allPendingJobs))>>

\* the indices (from 1) of the jobs the row loop visits
visibleRows(jobs, scrollOffset, maxRowsNow) ==
    [k \in 1 .. max(0, min(Len(jobs) - scrollOffset, maxRowsNow)) |->
        scrollOffset + k]

\* one row: the record, the line snprintf composed, the line after the clamp
tableRow(job, cells, w, numColumns, cols) ==
    LET composed == snprintfLine(cells, w, numColumns)
    IN  [job |-> job, composed |-> composed,
         fullLine |-> IF Len(composed) > cols - 2
                      THEN substr(composed, 0, cols - 2) ELSE composed]

\* drawJobTable: what it stores in maxRows, its widths and its rows
drawJobTable(jobs, u, d, rows, cols) ==
    LET maxRowsNow == rows - 6
        w == calculateColumnWidths(u.focusedColumn, cols, 8, jobs, FALSE, d.allPendingJobs)
        vis == visibleRows(jobs, u.scrollOffset, maxRowsNow)
    IN  [maxRows |-> maxRowsNow, widths |-> w,
         lines |-> [k \in 1 .. Len(vis) |->
                      tableRow(jobs[vis[k]],
                               jobTableCells(jobs[vis[k]], u.focusedColumn, w),
                               w, 8, cols)]]

\* the PENDING records of data.jobs, sorted by priority
pendingOf(d, ties) ==
    LET p == SelectSeq(d.jobs, LAMBDA j : j.state = sPENDING)
    IN  sortSeq(p, Len(p), ties)

\* drawPendingView
drawPendingView(u, d, rows, cols, ties) ==
    LET maxRowsNow == rows - 6
        pendingJobs == pendingOf(d, ties)
        w == calculateColumnWidths(u.focusedColumn, cols, 9, pendingJobs, TRUE, d.allPendingJobs)
        vis == visibleRows(pendingJobs, u.scrollOffset, maxRowsNow)
    IN  [maxRows |-> maxRowsNow, widths |-> w,
         lines |-> [k \in 1 .. Len(vis) |->
                      tableRow(pendingJobs[vis[k]],
                               pendingViewCells(pendingJobs[vis[k]],
                                                u.focusedColumn, w,
                                                d.allPendingJobs),
                               w, 9, cols)]]

\* the job list and the column count of a table view
viewJobs(view, d, ties) ==
    CASE view = "RUNNING" -> SelectSeq(d.jobs, LAMBDA j : j.state = sRUNNING)
      [] view = "PENDING" -> pendingOf(d, ties)
      [] view = "ALL"     -> d.jobs
      [] OTHER            -> <<>>

numColumnsOf(view) == IF view = "PENDING" THEN 9 ELSE 8

\* draw: drawOverview stores nothing in the interface and composes no row
draw(u, d, rows, cols, ties) ==
    CASE u.currentView = "RUNNING" -> drawJobTable(viewJobs("RUNNING", d, ties), u, d, rows, cols)
      [] u.currentView = "PENDING" -> drawPendingView(u, d, rows, cols, ties)
      [] u.currentView = "ALL"     -> drawJobTable(d.jobs, u, d, rows, cols)
      [] OTHER -> [maxRows |-> u.maxRows, widths |-> <<>>, lines |-> <<>>]

(***************************************************************************)
(* SlurmTopUI::handleInput on the fields of the interface,                 *)
(* u = [currentView, scrollOffset, focusedColumn, running, maxRows].       *)
(* A key is the name of the value getch returned.                          *)
(***************************************************************************)
QuitKeys == {"q", "Q"}

RefreshKeys == {"r", "R"}

SelectKeys == {"1", "2", "3", "4"}

\* a key without a case of its own
OtherKeys == {"x"}

viewOfKey(key) ==
    CASE key = "1" -> "OVERVIEW"
      [] key = "2" -> "RUNNING"
      [] key = "3" -> "PENDING"
      [] key = "4" -> "ALL"

\* cases '1' .. '4' without "scrollOffset = 0"
selectViewKeepScroll(u, view) ==
    [u EXCEPT !.currentView = view, !.focusedColumn = -1]

\* cases '1' .. '4'
selectView(u, view) ==
    [u EXCEPT !.currentView = view, !.scrollOffset = 0, !.focusedColumn = -1]

\* "int maxCol = (currentView == PENDING) ? 8 : 7;"
maxColOf(view) == IF view = "PENDING" THEN 8 ELSE 7

\* case KEY_LEFT wrapping to column 7 in every view
focusLeftWrapSeven(u) ==
    IF u.currentView # "OVERVIEW"
    THEN [u EXCEPT !.focusedColumn = IF @ - 1 < -1 THEN 7 ELSE @ - 1]
    ELSE u

\* case KEY_LEFT
focusLeft(u) ==
    IF u.currentView # "OVERVIEW"
    THEN [u EXCEPT !.focusedColumn =
                      IF @ - 1 < -1 THEN maxColOf(u.currentView) ELSE @ - 1]
    ELSE u

\* case KEY_RIGHT without "if (focusedColumn > maxCol) focusedColumn = -1"
focusRightNoWrap(u) ==
    IF u.currentView # "OVERVIEW"
    THEN [u EXCEPT !.focusedColumn = @ + 1]
    ELSE u

\* case KEY_RIGHT
focusRight(u) ==
    IF u.currentView # "OVERVIEW"
    THEN [u EXCEPT !.focusedColumn =
                      IF @ + 1 > maxColOf(u.currentView) THEN -1 ELSE @ + 1]
    ELSE u

\* a + b and a - b on int; a result out of range wraps around
add32(a, b) ==
    IF b > 0 /\ a > INT_MAX - b THEN (a - INT_MAX - 1) + (b - INT_MAX - 1)
    ELSE IF b < 0 /\ a < INT_MIN - b THEN (a + INT_MAX + 1) + (b + INT_MAX + 1)
    ELSE a + b

sub32(a, b) ==
    IF b = INT_MIN THEN (IF a >= 0 THEN a + INT_MIN ELSE (a + INT_MAX) + 1)
    ELSE add32(a, -b)

\* case KEY_PPAGE
pageUp(u) == [u EXCEPT !.scrollOffset = max(0, sub32(@, u.maxRows))]

\* case KEY_NPAGE
pageDown(u) == [u EXCEPT !.scrollOffset = add32(@, u.maxRows)]

\* cases 'r', 'R' resetting the focus as the cases '1' .. '4' do
refreshedResetFocus(u) == [u EXCEPT !.scrollOffset = 0, !.focusedColumn = -1]

\* cases 'r', 'R', after fetchSlurmData: "scrollOffset = 0;"
refreshed(u) == [u EXCEPT !.scrollOffset = 0]

\* "if (scrollOffset < 0) scrollOffset = 0;"
limitScroll(u) == IF u.scrollOffset < 0 THEN [u EXCEPT !.scrollOffset = 0] ELSE u

\* the switch of handleInput
switchKey(u, key) ==
    CASE key \in QuitKeys    -> [u EXCEPT !.running = FALSE]
      [] key \in RefreshKeys -> refreshed(u)
      [] key \in SelectKeys  -> selectView(u, viewOfKey(key))
      [] key = "KEY_UP"      -> IF u.scrollOffset > 0
                                THEN [u EXCEPT !.scrollOffset = @ - 1] ELSE u
      [] key = "KEY_DOWN"    -> [u EXCEPT !.scrollOffset = @ + 1]
      [] key = "KEY_LEFT"    -> focusLeft(u)
      [] key = "KEY_RIGHT"   -> focusRight(u)
      [] key = "KEY_PPAGE"   -> pageUp(u)
      [] key = "KEY_NPAGE"   -> pageDown(u)
      [] OTHER               -> u

\* handleInput: the fields it leaves, whether it fetched, and its result
handleInput(u, key) ==
    IF key = "ERR" THEN [ui |-> u, fetched |-> FALSE, needRedraw |-> FALSE]
    ELSE [ui |-> limitScroll(switchKey(u, key)),
          fetched |-> key \in RefreshKeys,
          needRedraw |-> key \notin OtherKeys]

(***************************************************************************)
(* State.                                                                  *)
(*   data     : the SlurmData of main                                      *)
(*   resp     : the collaborators' answers to the last refresh             *)
(*   prevJobs : the length of data.jobs when the last refresh began        *)
(*   pc       : "main" before the first fetch of main, "loop" inside run() *)
(*   sortTies : how the library's std::sort orders equal priorities        *)
(*   currentView, scrollOffset, focusedColumn, running : SlurmTopUI        *)
(*   pparams, pblob : the blob handed to the parser (and how it was built) *)
(*   pfield         : the field name handed to extractGPUInfo              *)
(*   pjob, pgpu     : what parseJobDetails and extractGPUInfo returned     *)
(*   pstep          : "input", "parsed" or "extracted"                     *)
(*   maxRows        : SlurmTopUI::maxRows, written by the table draws only *)
(*   termRows, termCols : what getmaxyx gave the most recent draw          *)
(*   widths, lines  : the column widths and the rows of that draw          *)
(*   drawnTable     : whether a table view has been drawn so far           *)
(*   ch, before     : the value getch returned last, and the interface and *)
(*                    the snapshot as they were before it was handled      *)
(***************************************************************************)
VARIABLES data, resp, prevJobs, pc, sortTies,
          currentView, scrollOffset, focusedColumn, running,
          pparams, pblob, pfield, pjob, pgpu, pstep,
          maxRows, termRows, termCols, widths, lines, drawnTable,
          ch, before

dataVars == <<data, resp, prevJobs, pc, sortTies>>

uiVars == <<currentView, scrollOffset, focusedColumn, running>>

parseVars == <<pparams, pblob, pfield, pjob, pgpu, pstep>>

screenVars ==
    <<maxRows, termRows, termCols, widths, lines, drawnTable, ch, before>>

vars == <<dataVars, uiVars, parseVars, screenVars>>

sJobId1 == <<"1","0","1">>

NoJob ==
    [jobId |-> <<>>, jobName |-> <<>>, account |-> <<>>, state |-> <<>>,
     reason |-> <<>>, runtime |-> <<>>, timeLimit |-> <<>>, priority |-> 0,
     gpuCount |-> 0, gpuType |-> <<>>]

\* SlurmTopUI(SlurmData& d)
InitUI ==
    /\ currentView = "OVERVIEW"
    /\ scrollOffset = 0
    /\ focusedColumn = -1
    /\ running = TRUE

IdleParser ==
    /\ pparams = StatusParams(sRUNNING, 1, TresNoGpu, TresNoGpu)
    /\ pblob = <<>>
    /\ pfield = <<>>
    /\ pjob = NoJob
    /\ pgpu = GpuDefault
    /\ pstep = "idle"

IdleData ==
    /\ data = ConstructedData(0)
    /\ resp = NoResponse
    /\ prevJobs = 0
    /\ pc = "main"
    /\ sortTies = "keep"

\* the fields of the interface that handleInput and the draws read and write
UI ==
    [currentView |-> currentView, scrollOffset |-> scrollOffset,
     focusedColumn |-> focusedColumn, running |-> running,
     maxRows |-> maxRows]

DefaultRows == 24

DefaultCols == 80

\* no draw has been made and no key has been read
IdleScreen ==
    /\ maxRows = 0
    /\ termRows = DefaultRows
    /\ termCols = DefaultCols
    /\ widths = <<>>
    /\ lines = <<>>
    /\ drawnTable = FALSE
    /\ ch = "none"
    /\ before = [ui |-> [currentView |-> "OVERVIEW", scrollOffset |-> 0,
                         focusedColumn |-> -1, running |-> TRUE,
                         maxRows |-> 0],
                 data |-> ConstructedData(0), drawnTable |-> FALSE]

(***************************************************************************)
(* The parser as a pure function: a blob is drawn, then parseJobDetails    *)
(* or extractGPUInfo is applied to it.                                     *)
(***************************************************************************)
InitParse ==
    /\ pparams \in BlobParams
    /\ pblob = BuildBlob(pparams)
    /\ pfield = <<>>
    /\ pjob = NoJob
    /\ pgpu = GpuDefault
    /\ pstep = "input"
    /\ IdleData
    /\ InitUI
    /\ IdleScreen

CallParseJob ==
    /\ pstep = "input"
    /\ pjob' = parseJobDetails(sJobId1, pblob)
    /\ pstep' = "parsed"
    /\ UNCHANGED <<pparams, pblob, pfield, pgpu, dataVars, uiVars,
                   screenVars>>

CallExtractGpu ==
    /\ pstep = "input"
    /\ \E f \in {sAllocTRES, sReqTRES} :
          /\ pfield' = f
          /\ pgpu' = extractGPUInfo(pblob, f)
    /\ pstep' = "extracted"
    /\ UNCHANGED <<pparams, pblob, pjob, dataVars, uiVars, screenVars>>

NextParse == CallParseJob \/ CallExtractGpu

SpecParse == InitParse /\ [][NextParse]_vars

(***************************************************************************)
(* The refreshes of a run: main() fetches once before the interface        *)
(* starts, and handleInput fetches again on the 'r' key.                   *)
(***************************************************************************)
InitRefresh ==
    /\ \E g \in UninitInts : data = ConstructedData(g)
    /\ resp = NoResponse
    /\ prevJobs = 0
    /\ pc = "main"
    /\ sortTies \in {"keep", "swap"}
    /\ InitUI
    /\ IdleParser
    /\ IdleScreen

\* main: "fetchSlurmData(data); SlurmTopUI ui(data); ui.run();"
MainFetch ==
    /\ pc = "main"
    /\ \E r \in Responses :
          /\ data' = fetchSlurmData(data, r, sortTies)
          /\ resp' = r
    /\ prevJobs' = Len(data.jobs)
    /\ pc' = "loop"
    /\ UNCHANGED <<sortTies, uiVars, parseVars, screenVars>>

\* handleInput, case 'r': "fetchSlurmData(data); scrollOffset = 0;"
RefreshKey ==
    /\ pc = "loop"
    /\ running
    /\ \E r \in KeyResponses :
          /\ data' = fetchSlurmData(data, r, sortTies)
          /\ resp' = r
    /\ prevJobs' = Len(data.jobs)
    /\ scrollOffset' = 0
    /\ UNCHANGED <<pc, sortTies, currentView, focusedColumn, running,
                   parseVars, screenVars>>

NextRefresh == MainFetch \/ RefreshKey

SpecRefresh == InitRefresh /\ [][NextRefresh]_vars

(***************************************************************************)
(* The layout and the rows as functions of the snapshot, the view, the     *)
(* focus and the terminal: a snapshot of two jobs is drawn, then           *)
(* calculateColumnWidths or draw is applied to it.                         *)
(***************************************************************************)
MidLen == 20

LongLen == 60

WideCols == 400

TermCols == {10, 40, 58, 66, 80, 120, 200, WideCols}

\* the GPU entries of a record: none, or two GPUs of a type of some length
GpuOptions ==
    { GpuDefault }
      \cup { [gpuCount |-> 2, gpuType |-> [k \in 1 .. n |-> "g"]] :
                n \in {MidLen, LongLen} }

\* the record parseJobDetails leaves for a job whose text fields have the
\* lengths of p
LayoutJob(p, st) ==
    [jobId |-> Dec(101), jobName |-> [k \in 1 .. p.name |-> "n"],
     account |-> [k \in 1 .. p.account |-> "a"], state |-> st,
     reason |-> [k \in 1 .. p.col4 |-> "r"],
     runtime |-> [k \in 1 .. p.col4 |-> "r"],
     timeLimit |-> <<"1","-","0","0",":","0","0">>,
     priority |-> 1, gpuCount |-> p.gpu.gpuCount, gpuType |-> p.gpu.gpuType]

\* a second job with short fields and a higher priority
ShortJob(st) ==
    [jobId |-> Dec(102), jobName |-> <<"j">>, account |-> <<"a">>,
     state |-> st, reason |-> <<"P">>, runtime |-> <<"0",":","0","1">>,
     timeLimit |-> <<"2",":","0","0",":","0","0">>, priority |-> 2, gpuCount |-> 0, gpuType |-> sNA]

\* field lengths: shorter than every header, moderate, beyond the cap of 50
LayoutParams ==
    [name : {0, MidLen, LongLen}, account : {0, MidLen, LongLen},
     col4 : {0, MidLen, LongLen}, gpu : GpuOptions]

\* the snapshot fetchSlurmData leaves when the user's two jobs parse to
\* LayoutJob and ShortJob (both also in the pending enumeration when pending)
LayoutSnapshot(p, st) ==
    LET d1 == addOwnedJob(addOwnedJob(clear(ConstructedData(0)),
                                      LayoutJob(p, st)), ShortJob(st))
        d2 == setTotalJobs(d1)
        d3 == IF st = sPENDING
              THEN addPendingJob(addPendingJob(d2, LayoutJob(p, st)),
                                 ShortJob(st))
              ELSE d2
    IN  sortAllPending(d3, "keep")

InitLayout ==
    /\ currentView \in {"RUNNING", "PENDING", "ALL"}
    /\ focusedColumn \in -1 .. maxColOf(currentView)
    /\ scrollOffset = 0
    /\ running = TRUE
    /\ \E p \in LayoutParams :
          data = LayoutSnapshot(p, IF currentView = "PENDING" THEN sPENDING
                                   ELSE sRUNNING)
    /\ resp = NoResponse
    /\ prevJobs = 0
    /\ pc = "layout"
    /\ sortTies = "keep"
    /\ maxRows = 0
    /\ termRows = DefaultRows
    /\ termCols \in TermCols
    /\ widths = <<>>
    /\ lines = <<>>
    /\ drawnTable = FALSE
    /\ ch = "none"
    /\ before = [ui |-> UI, data |-> data, drawnTable |-> FALSE]
    /\ IdleParser

\* calculateColumnWidths as the draw of the current view calls it
CallCalculateColumnWidths ==
    /\ pc = "layout"
    /\ widths' = calculateColumnWidths(focusedColumn, termCols, numColumnsOf(currentView), viewJobs(currentView, data, sortTies), currentView = "PENDING", data.allPendingJobs)
    /\ pc' = "laid"
    /\ UNCHANGED <<data, resp, prevJobs, sortTies, uiVars, parseVars,
                   maxRows, termRows, termCols, lines, drawnTable, ch, before>>

\* draw()
CallDraw ==
    /\ pc = "layout"
    /\ LET s == draw(UI, data, termRows, termCols, sortTies)
       IN  /\ maxRows' = s.maxRows
           /\ widths' = s.widths
           /\ lines' = s.lines
    /\ drawnTable' = TRUE
    /\ pc' = "drawn"
    /\ UNCHANGED <<data, resp, prevJobs, sortTies, uiVars, parseVars,
                   termRows, termCols, ch, before>>

NextLayout == CallCalculateColumnWidths \/ CallDraw

SpecLayout == InitLayout /\ [][NextLayout]_vars

(***************************************************************************)
(* The interaction loop: SlurmTopUI::run after main's fetch, the           *)
(* constructor and the initial draw.  pc is "loop" where run calls         *)
(* handleInput and "draw" where handleInput has returned true and run      *)
(* calls draw.                                                             *)
(***************************************************************************)
MaxScroll == 4

SmallRows == 4

TallRows == 8

\* SmallRows, TallRows: the heights getmaxyx reports, below and above the six
\* fixed lines

\* what the never-initialised maxRows may hold before the first table draw
UninitRows == UninitInts \cup {-3, INT_MAX, INT_MIN}

\* the answers to the fetches of a session: those of KeyResponses, or the
\* user has a running job 101 and a pending job 102
UIResponses ==
    KeyResponses \cup
    { [owned   |-> << [id |-> Dec(101), blob |-> BuildBlob(StatusParams(sRUNNING, 1, TresTyped(1), TresTyped(1)))],
                      [id |-> Dec(102), blob |-> BuildBlob(StatusParams(sPENDING, 1, TresTyped(2), TresAbsent))] >>,
       pending |-> << [id |-> Dec(102), blob |-> BuildBlob(StatusParams(sPENDING, 1, TresTyped(2), TresAbsent))] >>] }

\* main has fetched once and constructed the UI; run is at its initial draw
InitLoop ==
    /\ \E r \in UIResponses :
          /\ data = fetchSlurmData(ConstructedData(0), r, "keep")
          /\ resp = r
    /\ prevJobs = 0
    /\ pc = "draw"
    /\ sortTies = "keep"
    /\ InitUI
    /\ maxRows \in UninitRows
    /\ termRows \in {SmallRows, TallRows}
    /\ termCols = DefaultCols
    /\ widths = <<>>
    /\ lines = <<>>
    /\ drawnTable = FALSE
    /\ ch = "none"
    /\ before = [ui |-> UI, data |-> data, drawnTable |-> FALSE]
    /\ IdleParser

\* handleInput when getch returns key; fetches tells whether it fetched
HandleKey(key, fetches) ==
    /\ pc = "loop"
    /\ running
    /\ LET h == handleInput(UI, key)
       IN  /\ h.ui.scrollOffset <= MaxScroll
           /\ h.fetched = fetches
           /\ currentView' = h.ui.currentView
           /\ scrollOffset' = h.ui.scrollOffset
           /\ focusedColumn' = h.ui.focusedColumn
           /\ running' = h.ui.running
           /\ pc' = IF h.needRedraw THEN "draw" ELSE "loop"
    /\ prevJobs' = Len(data.jobs)
    /\ ch' = key
    /\ before' = [ui |-> UI, data |-> data, drawnTable |-> drawnTable]
    /\ UNCHANGED <<sortTies, parseVars, maxRows, termCols, widths, lines,
                   drawnTable>>

\* a key that fetches nothing, on a terminal that keeps its size
PlainKey(key) == HandleKey(key, FALSE) /\ UNCHANGED <<data, resp, termRows>>

NoInput == PlainKey("ERR")

PressQuit == \E key \in QuitKeys : PlainKey(key)

\* 'r' / 'R': the fetch is answered with r
PressRefresh ==
    \E key \in RefreshKeys, r \in UIResponses :
        /\ HandleKey(key, TRUE)
        /\ data' = fetchSlurmData(data, r, sortTies)
        /\ resp' = r
        /\ UNCHANGED termRows

PressSelect == \E key \in SelectKeys : PlainKey(key)

PressUp == PlainKey("KEY_UP")

PressDown == PlainKey("KEY_DOWN")

PressLeft == PlainKey("KEY_LEFT")

PressRight == PlainKey("KEY_RIGHT")

PressPageUp == PlainKey("KEY_PPAGE")

PressPageDown == PlainKey("KEY_NPAGE")

\* the terminal was resized: getch returns KEY_RESIZE, and getmaxyx reports
\* the new height from then on
Resize ==
    /\ HandleKey("KEY_RESIZE", FALSE)
    /\ termRows' \in {SmallRows, TallRows}
    /\ UNCHANGED <<data, resp>>

PressOther == \E key \in OtherKeys : PlainKey(key)

\* "draw();" in the loop of run
Draw ==
    /\ pc = "draw"
    /\ LET s == draw(UI, data, termRows, termCols, sortTies)
       IN  /\ maxRows' = s.maxRows
           /\ widths' = s.widths
           /\ lines' = s.lines
    /\ drawnTable' = (drawnTable \/ currentView # "OVERVIEW")
    /\ pc' = "loop"
    /\ UNCHANGED <<data, resp, prevJobs, sortTies, uiVars, parseVars,
                   termRows, termCols, ch, before>>

NextLoop ==
    \/ NoInput
    \/ PressQuit
    \/ PressRefresh
    \/ PressSelect
    \/ PressUp
    \/ PressDown
    \/ PressLeft
    \/ PressRight
    \/ PressPageUp
    \/ PressPageDown
    \/ Resize
    \/ PressOther
    \/ Draw

SpecLoop == InitLoop /\ [][NextLoop]_vars

(***************************************************************************)
(* Properties of the parser (SpecParse).                                   *)
(***************************************************************************)
\* what the blob holds from the first "NAME=" of a field on: the position of
\* the first "gres/gpu:", of the first "=" behind it, of the first "gres/gpu="
FieldPosOf(blob, name) == find(blob, name \o sEq, 0)

TypedPosOf(blob, name) ==
    IF FieldPosOf(blob, name) = npos THEN npos
    ELSE find(blob, sGresTyped, FieldPosOf(blob, name))

TypedEqOf(blob, name) ==
    IF TypedPosOf(blob, name) = npos THEN npos
    ELSE find(blob, sEq, TypedPosOf(blob, name) + Len(sGresTyped))

UntypedPosOf(blob, name) ==
    IF FieldPosOf(blob, name) = npos THEN npos
    ELSE find(blob, sGresUntyped, FieldPosOf(blob, name))

\* TYPE and the coerced N of the first token gres/gpu:TYPE=N from the field on
TypedTokenOf(blob, name) ==
    LET c == TypedPosOf(blob, name) + Len(sGresTyped)
        e == TypedEqOf(blob, name)
    IN  [gpuCount |-> stoiOrZero(substr(blob, e + 1, gpuCountEnd(blob, e + 1) - (e + 1))),
         gpuType  |-> stripControlChars(substr(blob, c, e - c))]

AllocHasNoGpu == pparams.alloc.kind \in {"absent", "nogpu"}

\* C1: a RUNNING record whose AllocTRES value holds no gres/gpu entry has
\* gpuCount 0, wherever the other fields (ReqTRES among them) stand in the blob.
C1_RunningReadsAllocOnly ==
    (pstep = "parsed" /\ pparams.state = sRUNNING /\ AllocHasNoGpu)
        => pjob.gpuCount = 0

\* C2, as claimed: every parsed record with gpuCount 0 has gpuType "N/A".
C2_ZeroCountIsNA ==
    (pstep = "parsed" /\ pjob.gpuCount = 0) => pjob.gpuType = sNA

\* C2, amended: a parsed record with gpuCount 0 has gpuType "N/A" unless a
\* gres/gpu token was matched from "AllocTRES=" on; with a typed token there
\* (a "gres/gpu:" with an "=" behind it) gpuType is the token's TYPE, else with
\* an untyped token there gpuType is "generic", although the count is 0.
C2_ZeroCountType ==
    (pstep = "parsed" /\ pjob.gpuCount = 0) =>
        IF TypedEqOf(pblob, sAllocTRES) # npos
        THEN pjob.gpuType = TypedTokenOf(pblob, sAllocTRES).gpuType
        ELSE IF UntypedPosOf(pblob, sAllocTRES) # npos
        THEN pjob.gpuType = sGeneric
        ELSE pjob.gpuType = sNA

\* a typed token with count text 0 was matched: count 0 with the type a100
C2_Witness ==
    /\ pstep = "parsed"
    /\ pparams.state = sRUNNING
    /\ pparams.alloc = [kind |-> "typed", type |-> sA100, ct |-> Dec(0)]
    /\ pjob.gpuCount = 0
    /\ pjob.gpuType = sA100

\* C3: extractGPUInfo gives the typed pattern precedence: with a typed token
\* gres/gpu:TYPE=N from "fieldName=" on, the result is (N, TYPE) whether an
\* untyped token stands before or behind it, and the result (M, "generic") of
\* the untyped pattern is returned only when no typed token occurs from there.
C3_TypedFirst ==
    (pstep = "extracted" /\ FieldPosOf(pblob, pfield) # npos) =>
        /\ TypedEqOf(pblob, pfield) # npos =>
              /\ pgpu = TypedTokenOf(pblob, pfield)
              /\ pgpu.gpuType # sGeneric
        /\ pgpu.gpuType = sGeneric =>
              /\ TypedEqOf(pblob, pfield) = npos
              /\ UntypedPosOf(pblob, pfield) # npos
        /\ (pfield = sAllocTRES
              /\ pparams.alloc.kind \in {"typedThenUntyped", "untypedThenTyped"})
              => pgpu = [gpuCount |-> 2, gpuType |-> sV100]
        /\ (pfield = sReqTRES
              /\ pparams.req.kind \in {"typedThenUntyped", "untypedThenTyped"})
              => pgpu = [gpuCount |-> 2, gpuType |-> sV100]

\* the field holds gres/gpu=9 before gres/gpu:v100=2 and the result is typed
C3_Witness ==
    /\ pstep = "extracted"
    /\ pfield = sAllocTRES
    /\ pparams.alloc.kind = "untypedThenTyped"
    /\ UntypedPosOf(pblob, pfield) < TypedPosOf(pblob, pfield)
    /\ pgpu = [gpuCount |-> 2, gpuType |-> sV100]

\* C4: extractGPUInfo returns a count >= 0 for every blob and field name, and
\* every parsed record has gpuCount >= 0.
C4_CountNonNegative ==
    /\ pstep = "extracted" => pgpu.gpuCount >= 0
    /\ pstep = "parsed" => pjob.gpuCount >= 0

(***************************************************************************)
(* Properties of the snapshot after a refresh (SpecRefresh).               *)
(***************************************************************************)
Refreshed == pc = "loop"

\* the positions of the records of data.jobs in state st
JobsIn(st) == { i \in 1 .. Len(data.jobs) : data.jobs[i].state = st }

\* the positions among them that hold GPUs, and those of GPU type t
GpuJobsIn(st) == { i \in JobsIn(st) : data.jobs[i].gpuCount > 0 }

GpuJobsOf(st, t) == { i \in GpuJobsIn(st) : data.jobs[i].gpuType = t }

RECURSIVE SumGpuCount(_)
SumGpuCount(S) ==
    IF S = {} THEN 0
    ELSE LET i == CHOOSE x \in S : TRUE
         IN  data.jobs[i].gpuCount + SumGpuCount(S \ {i})

MapIsSumOver(m, st) ==
    /\ DOMAIN m = { data.jobs[i].gpuType : i \in GpuJobsIn(st) }
    /\ \A t \in DOMAIN m : m[t] = SumGpuCount(GpuJobsOf(st, t))

\* C5: after a refresh gpuTypeCount[t] is the sum of gpuCount over the RUNNING
\* records of type t with gpuCount > 0 and gpuTypeRequested[t] the same sum
\* over the PENDING records; a type without such a record is in neither
\* mapping; runningJobs and pendingJobs count the RUNNING and PENDING records
\* only.
C5_GpuTotals ==
    Refreshed =>
        /\ MapIsSumOver(data.gpuTypeCount, sRUNNING)
        /\ MapIsSumOver(data.gpuTypeRequested, sPENDING)
        /\ data.runningJobs = Cardinality(JobsIn(sRUNNING))
        /\ data.pendingJobs = Cardinality(JobsIn(sPENDING))

\* two running jobs with one a100 each add up to gpuTypeCount[a100] = 2
C5_Witness ==
    /\ Refreshed
    /\ Cardinality(GpuJobsOf(sRUNNING, sA100)) = 2
    /\ data.gpuTypeCount[sA100] = 2
    /\ data.gpuTypeRequested = EmptyMap

\* C6: after every refresh totalJobs is the length of jobs, and
\* runningJobs + pendingJobs <= totalJobs.
C6_TotalIsLength ==
    Refreshed =>
        /\ data.totalJobs = Len(data.jobs)
        /\ data.runningJobs + data.pendingJobs <= data.totalJobs

\* two identifiers enumerated, one gone and one in another state: 1 job, 0 + 0
C6_Witness ==
    /\ Refreshed
    /\ Len(resp.owned) = 2
    /\ data.totalJobs = 1
    /\ data.runningJobs + data.pendingJobs = 0

\* the enumerated identifiers whose status fetch answered, in their order
RECURSIVE Answered(_, _)
Answered(ans, i) ==
    IF i > Len(ans) THEN <<>>
    ELSE (IF ans[i].blob = <<>> THEN <<>> ELSE <<ans[i]>>) \o Answered(ans, i + 1)

RECURSIVE RecordsOf(_, _)
RecordsOf(ans, i) ==
    IF i > Len(ans) THEN <<>>
    ELSE <<parseStatus(ans[i].id, ans[i].blob)>> \o RecordsOf(ans, i + 1)

WithoutVanished(r) ==
    [owned |-> Answered(r.owned, 1), pending |-> Answered(r.pending, 1)]

\* C7: an identifier whose status fetch answers with nothing is dropped: jobs
\* holds the records of the other owned identifiers in enumeration order, and
\* the snapshot is the one a refresh yields when the vanished identifiers are
\* left out of both enumerations.
C7_VanishedDropped ==
    Refreshed =>
        /\ data.jobs = RecordsOf(Answered(resp.owned, 1), 1)
        /\ Len(data.allPendingJobs) <= Len(Answered(resp.pending, 1))
        /\ data = fetchSlurmData(data, WithoutVanished(resp), sortTies)

\* the first owned identifier vanished, the second one produced the only record
C7_Witness ==
    /\ Refreshed
    /\ Len(resp.owned) = 2
    /\ resp.owned[1].blob = <<>>
    /\ resp.owned[2].blob # <<>>
    /\ Len(data.jobs) = 1
    /\ data.jobs[1].jobId = resp.owned[2].id
    /\ data.totalJobs = 1

\* C8: the snapshot after a refresh is the one the same answers yield from a
\* newly constructed SlurmData, whatever the snapshot before the refresh
\* was; username is the one main set.
C8_FullReplace ==
    Refreshed => data = fetchSlurmData(ConstructedData(0), resp, sortTies)

\* a refresh that began with a non-empty snapshot and found the queue empty
C8_Witness ==
    /\ Refreshed
    /\ prevJobs > 0
    /\ resp = NoResponse
    /\ data.jobs = <<>> /\ data.allPendingJobs = <<>>
    /\ data.totalJobs = 0 /\ data.runningJobs = 0 /\ data.pendingJobs = 0
    /\ data.gpuTypeCount = EmptyMap /\ data.gpuTypeRequested = EmptyMap

CountIn(list, x) == Cardinality({ i \in 1 .. Len(list) : list[i] = x })

SameRecords(a, b) ==
    /\ Len(a) = Len(b)
    /\ \A i \in 1 .. Len(a) : CountIn(a, a[i]) = CountIn(b, a[i])

PositiveOnly(list) == SelectSeq(list, LAMBDA j : j.priority > 0)

\* C9: after a refresh allPendingJobs is ordered by non-increasing priority,
\* every member has priority > 0, and it holds exactly the records parsed from
\* the answered identifiers of the pending enumeration whose priority is > 0.
C9_PendingRanking ==
    Refreshed =>
        /\ \A i \in 1 .. Len(data.allPendingJobs) - 1 :
              data.allPendingJobs[i].priority >= data.allPendingJobs[i + 1].priority
        /\ \A i \in 1 .. Len(data.allPendingJobs) :
              data.allPendingJobs[i].priority > 0
        /\ SameRecords(data.allPendingJobs,
                       PositiveOnly(RecordsOf(Answered(resp.pending, 1), 1)))

\* the enumeration listed the lower priority first and the sort swapped them
C9_Witness ==
    /\ Refreshed
    /\ Len(resp.pending) = 2
    /\ Len(data.allPendingJobs) = 2
    /\ data.allPendingJobs[1].jobId = resp.pending[2].id
    /\ data.allPendingJobs[1].priority > data.allPendingJobs[2].priority

OwnPendingListed ==
    \A i \in 1 .. Len(data.jobs) :
        (data.jobs[i].state = sPENDING /\ data.jobs[i].priority > 0) =>
            \E k \in 1 .. Len(data.allPendingJobs) :
                data.allPendingJobs[k].jobId = data.jobs[i].jobId

\* C10, as claimed: after a refresh every PENDING record of jobs with
\* priority > 0 has its jobId in allPendingJobs, the scheduler being free to
\* change between the owned pass and the pending pass.
C10_OwnPendingInRanking == Refreshed => OwnPendingListed

PendingStatusBlobs ==
    { BuildBlob(p) : p \in { q \in OwnedStatusParams \cup PendingStatusParams :
                                q.state = sPENDING } }

\* the scheduler did not change during the refresh: an identifier's status is
\* the same in both passes, and the pending enumeration lists every owned
\* identifier whose status is PENDING
SchedulerUnchanged(r) ==
    /\ \A i \in 1 .. Len(r.owned) : \A k \in 1 .. Len(r.pending) :
          r.owned[i].id = r.pending[k].id => r.owned[i].blob = r.pending[k].blob
    /\ \A i \in 1 .. Len(r.owned) :
          r.owned[i].blob \in PendingStatusBlobs =>
              \E k \in 1 .. Len(r.pending) : r.pending[k].id = r.owned[i].id

\* C10, amended: the same, for a refresh during which the scheduler does not
\* change.
C10_OwnPendingInRankingUnchanged ==
    (Refreshed /\ SchedulerUnchanged(resp)) => OwnPendingListed

\* an owned pending job of positive priority, listed by both enumerations
C10_Witness ==
    /\ Refreshed
    /\ SchedulerUnchanged(resp)
    /\ \E i \in 1 .. Len(data.jobs) :
          /\ data.jobs[i].state = sPENDING
          /\ data.jobs[i].priority > 0
          /\ \E k \in 1 .. Len(data.allPendingJobs) :
                data.allPendingJobs[k].jobId = data.jobs[i].jobId

(***************************************************************************)
(* Properties of the layout and of the rows (SpecLayout).                  *)
(***************************************************************************)
Laid == pc \in {"laid", "drawn"}

Columns == 0 .. numColumnsOf(currentView) - 1

\* the required widths the layout was computed from
Required ==
    requiredWidths(numColumnsOf(currentView), viewJobs(currentView, data, sortTies), currentView = "PENDING", data.allPendingJobs)

RECURSIVE SumOver(_, _)
SumOver(f, S) ==
    IF S = {} THEN 0
    ELSE LET x == CHOOSE y \in S : TRUE IN f[x] + SumOver(f, S \ {x})

Available == termCols - (numColumnsOf(currentView) - 1) - 2

FloorOf(i) == IF i \in {4, 5} THEN 5 ELSE 8

Floors == [i \in Columns |-> FloorOf(i)]

\* C11: in default mode, on a terminal at least as wide as the sum of the
\* column floors: when the required widths sum to at most the available
\* width, the assigned widths with the separators and the margin fit the
\* terminal; otherwise every assigned width is at least the column's floor.
C11_DefaultBudget ==
    (Laid /\ focusedColumn = -1 /\ termCols >= SumOver(Floors, Columns)) =>
        IF SumOver(Required, Columns) <= Available
        THEN SumOver(widths, Columns) + (numColumnsOf(currentView) - 1) + 2
                <= termCols
        ELSE \A i \in Columns : widths[i] >= FloorOf(i)

\* the required widths fit with room to spare, both passes over the extra
\* space have handed out units, and the terminal is filled to its last column
C11_Witness ==
    /\ Laid
    /\ focusedColumn = -1
    /\ SumOver(Required, Columns) < Available
    /\ \E i \in Columns : widths[i] > Required[i] + 1
    /\ SumOver(widths, Columns) + (numColumnsOf(currentView) - 1) + 2 = termCols

\* the value of a record in a column, as the table views print it
FieldOf(job, col) ==
    CASE col = 0 -> job.jobId
      [] col = 1 -> job.jobName
      [] col = 2 -> job.account
      [] col = 3 -> IF currentView = "PENDING" THEN job.reason ELSE job.runtime
      [] col = 4 -> job.timeLimit
      [] col = 5 -> to_string(job.gpuCount)
      [] col = 6 -> job.gpuType
      [] col = 7 -> IF currentView = "PENDING" THEN to_string(job.priority)
                    ELSE job.state
      [] col = 8 -> to_string(higherCount(job, data.allPendingJobs))

\* where the cell of a column starts in a composed row
CellStart(col) == SumOver([i \in Columns |-> widths[i] + 1], 0 .. col - 1)

\* C12: in a table view with a focused column, every visible row holds, in
\* the focused column's cell of the composed row, the record's full value.
C12_FocusedCellFull ==
    (pc = "drawn" /\ focusedColumn >= 0) =>
        \A k \in 1 .. Len(lines) :
            LET v == FieldOf(lines[k].job, focusedColumn)
            IN  substr(lines[k].composed, CellStart(focusedColumn), Len(v)) = v

\* C17: in focused mode with a non-negative available width, the assigned
\* widths of all columns sum to exactly the available width.
C17_LeftoverExhausted ==
    (Laid /\ focusedColumn >= 0 /\ Available >= 0) =>
        SumOver(widths, Columns) = Available

\* C18: in focused mode with a non-negative available width, every assigned
\* width is >= 0, the focused width is min(required + 2, available), and the
\* assigned widths sum to at most the available width.
C18_FocusedBudget ==
    (Laid /\ focusedColumn >= 0 /\ Available >= 0) =>
        /\ \A i \in Columns : widths[i] >= 0
        /\ widths[focusedColumn] =
              (IF Required[focusedColumn] + 2 < Available
               THEN Required[focusedColumn] + 2 ELSE Available)
        /\ SumOver(widths, Columns) <= Available

\* the focused column needs more than the terminal has: it takes all of the
\* available width and the other columns get none
C18_Witness ==
    /\ Laid
    /\ focusedColumn >= 0
    /\ Required[focusedColumn] + 2 > Available
    /\ widths[focusedColumn] = Available
    /\ \A i \in Columns \ {focusedColumn} : widths[i] = 0

(***************************************************************************)
(* Properties of the interaction loop (SpecLoop).                          *)
(***************************************************************************)
\* the highest column index of a view: 8 in Pending, 7 in Running and All
MaxColumnIndex(view) == IF view = "PENDING" THEN 8 ELSE 7

\* C13: in every state reachable by input events, scrollOffset >= 0,
\* focusedColumn lies in [-1, maxColumnIndex of the current view], and
\* focusedColumn is -1 whenever the current view is Overview.
C13_ScrollAndFocusRange ==
    /\ scrollOffset >= 0
    /\ focusedColumn >= -1
    /\ focusedColumn <= MaxColumnIndex(currentView)
    /\ currentView = "OVERVIEW" => focusedColumn = -1

\* a page-down with a negative page size went below zero and was clamped
C13_Witness ==
    /\ ch = "KEY_NPAGE"
    /\ before.ui.scrollOffset > 0
    /\ before.ui.maxRows < 0
    /\ before.ui.maxRows + before.ui.scrollOffset < 0
    /\ scrollOffset = 0

SelectedView(key) ==
    CASE key = "1" -> "OVERVIEW"
      [] key = "2" -> "RUNNING"
      [] key = "3" -> "PENDING"
      [] key = "4" -> "ALL"

\* C14: a select-view event (1..4), also one that selects the view already
\* shown, sets the current view to the selected one, scrollOffset to 0 and
\* focusedColumn to -1, and leaves the snapshot unchanged.
C14_SelectResets ==
    ch \in {"1", "2", "3", "4"} =>
        /\ currentView = SelectedView(ch)
        /\ scrollOffset = 0
        /\ focusedColumn = -1
        /\ data = before.data

\* the Pending view, scrolled and with a focused column, was selected again
C14_Witness ==
    /\ ch = "3"
    /\ before.ui.currentView = "PENDING"
    /\ before.ui.scrollOffset > 0
    /\ before.ui.focusedColumn >= 0
    /\ currentView = "PENDING"
    /\ scrollOffset = 0
    /\ focusedColumn = -1

RECURSIVE Pressed(_, _, _)
\* the interface after n presses of a key
Pressed(u, key, n) ==
    IF n = 0 THEN u ELSE Pressed(handleInput(u, key).ui, key, n - 1)

\* C15: in the Running, Pending and All views focus-right maps f to f + 1 and
\* maxColumnIndex to -1, focus-left maps f to f - 1 and -1 to maxColumnIndex;
\* the two are inverses of each other and maxColumnIndex + 2 presses of
\* either return to the starting focus.  In Overview both leave the view,
\* scrollOffset and focusedColumn unchanged.
C15_FocusCycle ==
    LET m == MaxColumnIndex(before.ui.currentView)
        f == before.ui.focusedColumn
        table == before.ui.currentView # "OVERVIEW"
    IN  /\ (ch = "KEY_RIGHT" /\ table) =>
               focusedColumn = (IF f = m THEN -1 ELSE f + 1)
        /\ (ch = "KEY_LEFT" /\ table) =>
               focusedColumn = (IF f = -1 THEN m ELSE f - 1)
        /\ (ch \in {"KEY_LEFT", "KEY_RIGHT"} /\ ~table) =>
               /\ currentView = before.ui.currentView
               /\ scrollOffset = before.ui.scrollOffset
               /\ focusedColumn = before.ui.focusedColumn
        /\ (pc = "loop" /\ currentView # "OVERVIEW") =>
               /\ handleInput(handleInput(UI, "KEY_RIGHT").ui, "KEY_LEFT").ui = UI
               /\ handleInput(handleInput(UI, "KEY_LEFT").ui, "KEY_RIGHT").ui = UI
               /\ Pressed(UI, "KEY_RIGHT", MaxColumnIndex(currentView) + 2) = UI
               /\ Pressed(UI, "KEY_LEFT", MaxColumnIndex(currentView) + 2) = UI

\* focus-left from "no focus" in the Pending view wrapped to column 8
C15_Witness ==
    /\ ch = "KEY_LEFT"
    /\ before.ui.currentView = "PENDING"
    /\ before.ui.focusedColumn = -1
    /\ focusedColumn = 8

\* C16: a refresh event runs the aggregator to completion before the next
\* draw (when handleInput has returned and the draw is still to come, the
\* snapshot is the complete result of fetchSlurmData, and the draw that
\* follows composes its rows from it), sets scrollOffset to 0, and leaves the
\* current view and focusedColumn unchanged.
C16_RefreshFrame ==
    ch \in {"r", "R"} =>
        /\ data = fetchSlurmData(before.data, resp, sortTies)
        /\ data.totalJobs = Len(data.jobs)
        /\ scrollOffset = 0
        /\ currentView = before.ui.currentView
        /\ focusedColumn = before.ui.focusedColumn
        /\ pc = "loop" =>
              \A k \in 1 .. Len(lines) :
                  \E n \in 1 .. Len(data.jobs) : lines[k].job = data.jobs[n]

\* a refresh in a scrolled table view with a focused column replaced the
\* snapshot, and the draw after it shows rows of the new one
C16_Witness ==
    /\ ch \in {"r", "R"}
    /\ pc = "loop"
    /\ before.ui.scrollOffset > 0
    /\ before.ui.focusedColumn >= 0
    /\ focusedColumn = before.ui.focusedColumn
    /\ data # before.data
    /\ Len(lines) > 0

\* C19: for every terminal height, once a table view has been drawn (so that
\* the page size is the terminal rows - 6 its draw stored), a page-down event
\* never decreases scrollOffset and a page-up event never increases it.
C19_PageMonotone ==
    before.drawnTable =>
        /\ ch = "KEY_NPAGE" => scrollOffset >= before.ui.scrollOffset
        /\ ch = "KEY_PPAGE" => scrollOffset <= before.ui.scrollOffset

=============================================================================
